---- MODULE Spec2Model ----
(***************************************************************************)
(* Model of src/feature_pipeline/data_sourcing.py: the DataDownloader      *)
(* class.  Strings are sequences of one-character strings, so that the     *)
(* formatting, slicing and pattern matching of the code are computed.      *)
(* The filesystem is a function from paths (sequences of components,       *)
(* relative to RAW_DATA_DIR) to file records; the network is the log of    *)
(* the requests issued by the call in progress.                            *)
(***************************************************************************)
EXTENDS Integers, Sequences, FiniteSets, TLC

VARIABLES
  constructed,         \* "no" | "ok" | "failed": outcome of __init__
  city_name,           \* self.city_name
  year,                \* self.year
  fs,                  \* the filesystem under RAW_DATA_DIR
  fs0,                 \* the filesystem when the call in progress began
  net,                 \* requests issued by the call in progress / last call
  pc,                  \* "idle" | "loop": position inside load_raw_data
  just_download,       \* load_raw_data's argument
  months_to_query_for, \* load_raw_data's local
  idx,                 \* position of the for loop in months_to_query_for
  data,                \* load_raw_data's local: the rows concatenated so far
  data_for_the_month,  \* load_raw_data's local (possibly unbound)
  steps,               \* what each iteration of the current batch did
  call,                \* the arguments of the call in progress / last call
  ret,                 \* outcome of the last finished call
  calls,               \* number of calls made on the object
  fails                \* number of environment failures so far

vars == <<constructed, city_name, year, fs, fs0, net, pc,
          just_download, months_to_query_for, idx, data, data_for_the_month,
          steps, call, ret, calls, fails>>

----------------------------------------------------------------------------
(* Bounds of the model and the environment.                                *)

MaxCalls == 2          \* calls made on one fetcher
MaxFails == 1          \* environment failures injected in one behaviour
NowYear == 2021        \* dt.now().year
NowMonth == 2          \* dt.now().month

----------------------------------------------------------------------------
(* String literals.                                                        *)

\* "bay_area"
bay_area ==
  <<"b","a","y","_","a","r","e","a">>
\* "chicago"
chicago ==
  <<"c","h","i","c","a","g","o">>
\* "new_york"
new_york ==
  <<"n","e","w","_","y","o","r","k">>
\* "columbus"
columbus ==
  <<"c","o","l","u","m","b","u","s">>
\* "washington_dc"
washington_dc ==
  <<"w","a","s","h","i","n","g","t","o","n","_","d","c">>
\* "portland"
portland ==
  <<"p","o","r","t","l","a","n","d">>
\* "miami"
miami ==
  <<"m","i","a","m","i">>
\* "Chicago"
Chicago_mixed ==
  <<"C","h","i","c","a","g","o">>
\* "https://"
https ==
  <<"h","t","t","p","s",":","/","/">>
\* ".zip"
dot_zip ==
  <<".","z","i","p">>
\* ".csv"
dot_csv ==
  <<".","c","s","v">>
\* "lyft.com/bikes/"
lyft_bikes ==
  <<"l","y","f","t",".","c","o","m","/","b","i","k","e","s","/">>
\* ".com/system-data"
com_system_data ==
  <<".","c","o","m","/","s","y","s","t","e","m","-","d","a","t","a">>
\* "https://s3.amazonaws.com/biketown-tripdata-public/202005.csv.zip"
example_url ==
  <<"h","t","t","p","s",":","/","/","s","3",".","a","m","a","z","o","n","a","w","s",".","c","o","m","/","b","i","k","e","t","o","w","n","-","t","r","i","p","d","a","t","a","-","p","u","b","l","i","c","/","2","0","2","0","0","5",".","c","s","v",".","z","i","p">>

\* the values of self.service_names
svc_bay_area ==
  <<"b","a","y","-","w","h","e","e","l","s">>
svc_chicago ==
  <<"d","i","v","v","y","b","i","k","e","s">>
svc_new_york ==
  <<"c","i","t","i","b","i","k","e","n","y","c">>
svc_columbus ==
  <<"c","o","g","o","b","i","k","e","s","h","a","r","e">>
svc_washington_dc ==
  <<"c","a","p","i","t","a","l","b","i","k","e","s","h","a","r","e">>
svc_portland ==
  <<"b","i","k","e","t","o","w","n","p","d","x">>
\* the file-name templates, after the year and month
tpl_chicago ==
  <<"-","d","i","v","v","y","-","t","r","i","p","d","a","t","a">>
tpl_new_york ==
  <<"-","c","i","t","i","b","i","k","e","-","t","r","i","p","d","a","t","a">>
tpl_columbus ==
  <<"-","c","o","g","o","-","t","r","i","p","d","a","t","a">>
tpl_washington_dc ==
  <<"-","c","a","p","i","t","a","l","b","i","k","e","s","h","a","r","e","-","t","r","i","p","d","a","t","a">>
tpl_portland ==
  <<".","c","s","v">>
\* the URL heads
head_chicago ==
  <<"d","i","v","v","y","-","t","r","i","p","d","a","t","a",".","s","3",".","a","m","a","z","o","n","a","w","s",".","c","o","m","/">>
head_new_york ==
  <<"s","3",".","a","m","a","z","o","n","a","w","s",".","c","o","m","/","t","r","i","p","d","a","t","a","/">>
head_columbus ==
  <<"c","o","g","o","-","s","y","s","-","d","a","t","a",".","s","3",".","a","m","a","z","o","n","a","w","s",".","c","o","m","/">>
head_washington_dc ==
  <<"s","3",".","a","m","a","z","o","n","a","w","s",".","c","o","m","/","c","a","p","i","t","a","l","b","i","k","e","s","h","a","r","e","-","d","a","t","a","/">>
head_portland ==
  <<"s","3",".","a","m","a","z","o","n","a","w","s",".","c","o","m","/","b","i","k","e","t","o","w","n","-","t","r","i","p","d","a","t","a","-","p","u","b","l","i","c","/">>

----------------------------------------------------------------------------
(* Values.                                                                 *)

None == [tag |-> "none", rows |-> <<>>]
Unbound == [tag |-> "unbound", rows |-> <<>>]
DF(rows) == [tag |-> "df", rows |-> rows]

\* The outcome of a call: the exception raised ("" when it returned), the
\* returned value in the field its type names, and the number of logger.error
\* calls it made.
Base(op) ==
  [op |-> op, exc |-> "", tag |-> "none", rows |-> <<>>, b |-> FALSE,
   s |-> <<>>, errors |-> 0]
NoResult == Base("")
Raised(op, exc) == [Base(op) EXCEPT !.exc = exc]
RetNone(op) == Base(op)
RetBool(op, b) == [Base(op) EXCEPT !.tag = "bool", !.b = b]
RetStr(op, s) == [Base(op) EXCEPT !.tag = "str", !.s = s]
RetVal(op, v) == [Base(op) EXCEPT !.tag = v.tag, !.rows = v.rows]

----------------------------------------------------------------------------
(* String functions of the Python runtime used by the code.                *)

UpperChars == <<"A","B","C","D","E","F","G","H","I","J","K","L","M",
                "N","O","P","Q","R","S","T","U","V","W","X","Y","Z">>
LowerChars == <<"a","b","c","d","e","f","g","h","i","j","k","l","m",
                "n","o","p","q","r","s","t","u","v","w","x","y","z">>

LowerChar(c) ==
  IF \E k \in 1..26 : UpperChars[k] = c
  THEN LowerChars[CHOOSE k \in 1..26 : UpperChars[k] = c]
  ELSE c

\* str.lower()
lower(s) == [k \in 1..Len(s) |-> LowerChar(s[k])]

DigitChars == <<"0","1","2","3","4","5","6","7","8","9">>

RECURSIVE Dec(_)
\* the decimal digits of a natural number
Dec(n) ==
  IF n < 10 THEN <<DigitChars[n + 1]>>
  ELSE Dec(n \div 10) \o <<DigitChars[(n % 10) + 1]>>

\* f"{n}"
FormatInt(n) == IF n < 0 THEN <<"-">> \o Dec(-n) ELSE Dec(n)

\* f"{n:02d}": zero-padded to a width of at least two, the sign included
Format02d(n) ==
  IF n < 0 THEN <<"-">> \o Dec(-n)
  ELSE IF Len(Dec(n)) < 2 THEN <<"0">> \o Dec(n) ELSE Dec(n)

\* the positions of "/" in s
SlashAt(s) == {k \in 1..Len(s) : s[k] = "/"}

Max(S) == CHOOSE x \in S : \A y \in S : y <= x

\* re.search(r"([^/]+)$", s).group(1), or <<>> when there is no match
LastSegment(s) ==
  IF SlashAt(s) = {} THEN s
  ELSE SubSeq(s, Max(SlashAt(s)) + 1, Len(s))

\* s[:-4]
DropLast4(s) == IF Len(s) <= 4 THEN <<>> ELSE SubSeq(s, 1, Len(s) - 4)

RECURSIVE Split(_)
\* the components of a relative path string, as pathlib's "/" joins them
Split(s) ==
  IF SlashAt(s) = {} THEN (IF s = <<>> THEN <<>> ELSE <<s>>)
  ELSE LET k == CHOOSE j \in SlashAt(s) : \A m \in SlashAt(s) : j <= m
           head == SubSeq(s, 1, k - 1)
       IN (IF head = <<>> THEN <<>> ELSE <<head>>) \o Split(SubSeq(s, k + 1, Len(s)))

\* Path / str
Join(p, s) == p \o Split(s)

----------------------------------------------------------------------------
(* The registries and the pure functions of DataDownloader.                *)

\* self.service_names
service_names ==
  (bay_area :> svc_bay_area) @@ (chicago :> svc_chicago) @@
  (new_york :> svc_new_york) @@ (columbus :> svc_columbus) @@
  (washington_dc :> svc_washington_dc) @@ (portland :> svc_portland)

\* the dict of get_data_file_name, built for one year_and_month
city_name_and_url(year_and_month) ==
  (chicago :> year_and_month \o tpl_chicago) @@
  (new_york :> year_and_month \o tpl_new_york) @@
  (columbus :> year_and_month \o tpl_columbus) @@
  (washington_dc :> year_and_month \o tpl_washington_dc) @@
  (portland :> year_and_month \o tpl_portland)

\* the dict of get_url_for_city_data
city_name_and_url_head ==
  (chicago :> head_chicago) @@ (new_york :> head_new_york) @@
  (columbus :> head_columbus) @@ (washington_dc :> head_washington_dc) @@
  (portland :> head_portland)

\* get_data_file_name(month) of a fetcher for (city, yr)
get_data_file_name(city, yr, month) ==
  LET year_and_month == FormatInt(yr) \o Format02d(month)
      d == city_name_and_url(year_and_month)
  IN IF city \in DOMAIN d
     THEN RetStr("get_data_file_name", d[city])
     ELSE Raised("get_data_file_name", "KeyError")

\* the year after which Portland publishes nothing
PortlandLastYear == 2020

portland_from_last_year(city, yr) == city = portland /\ yr >= PortlandLastYear

\* the test of line 136
portland_after_last_year(city, yr) == city = portland /\ yr > PortlandLastYear

\* get_url_for_city_data(month) of a fetcher for (city, yr)
get_url_for_city_data(city, yr, month) ==
  IF portland_after_last_year(city, yr)
  THEN [RetNone("get_url_for_city_data") EXCEPT !.errors = 1]
  ELSE LET file_name == get_data_file_name(city, yr, month)
       IN IF file_name.exc # "" THEN Raised("get_url_for_city_data", file_name.exc)
          ELSE IF city \notin DOMAIN city_name_and_url_head
               THEN Raised("get_url_for_city_data", "KeyError")
               ELSE RetStr("get_url_for_city_data",
                           https \o city_name_and_url_head[city] \o file_name.s \o dot_zip)

\* a name derivation that takes the missing URL for the text "None"
get_zipfile_name_of_anything(url) ==
  IF url.tag # "str" THEN RetStr("get_zipfile_name", <<"N", "o", "n", "e">>)
  ELSE IF LastSegment(url.s) = <<>> THEN Raised("get_zipfile_name", "Exception")
       ELSE RetStr("get_zipfile_name", LastSegment(url.s))

\* get_zipfile_name(url); url is the value get_url_for_city_data returned
get_zipfile_name(url) ==
  IF url.tag # "str" THEN Raised("get_zipfile_name", "TypeError")
  ELSE IF LastSegment(url.s) = <<>> THEN Raised("get_zipfile_name", "Exception")
       ELSE RetStr("get_zipfile_name", LastSegment(url.s))

----------------------------------------------------------------------------
(* The filesystem under RAW_DATA_DIR and the HTTP servers.                 *)

EmptyFs == <<>>
Dir == [kind |-> "dir", member |-> <<>>, rows |-> <<>>]
File(kind, member, rows) == [kind |-> kind, member |-> member, rows |-> rows]

Exists(f, path) == path \in DOMAIN f
Put(f, path, rec) == (path :> rec) @@ f
Remove(f, path) == [q \in DOMAIN f \ {path} |-> f[q]]

\* the number of rows of the CSV the operator publishes for a month
NRows(month) == 1 + (month % 2)

\* the rows of the CSV published for (yr, month); a row names its origin
SourceRows(yr, month) == [k \in 1..NRows(month) |-> <<(yr * 100) + month, k>>]

\* What one archive download meets: the operator's servers, the disk.
Outcomes == {"ok", "get_raises", "open_raises", "bad_zip", "read_raises"}

\* the body of the response to the archive request
ResponseContent(url, yr, month, outcome) ==
  IF outcome = "bad_zip" THEN File("junk", <<>>, <<>>)
  ELSE File(IF outcome = "read_raises" THEN "zip_of_badcsv" ELSE "zip",
            DropLast4(LastSegment(url)) \o dot_csv, SourceRows(yr, month))

\* what the portal answers to the probe
ProbeStatuses == {200, 404, 503}
ProbeResponses ==
  {[raises |-> TRUE, status |-> 0]} \cup
  {[raises |-> FALSE, status |-> s] : s \in ProbeStatuses}

Request(kind, url) == [kind |-> kind, url |-> url]

\* pd.read_csv(path)
read_csv(f, path) ==
  IF ~Exists(f, path) THEN Raised("read_csv", "FileNotFoundError")
  ELSE IF f[path].kind = "csv" THEN RetVal("read_csv", DF(f[path].rows))
       ELSE IF f[path].kind = "dir" THEN Raised("read_csv", "IsADirectoryError")
            ELSE Raised("read_csv", "ParserError")

\* make_needed_directories(): creates the directory tree above the cache
\* entries, which fs does not track
make_needed_directories(f) == f

----------------------------------------------------------------------------
(* The methods of DataDownloader that touch the disk or the network.  Each *)
(* yields [fs, net, ret]: the filesystem after the call, the requests it   *)
(* issued and its outcome.                                                 *)

Effect(f, reqs, r) == [fs |-> f, net |-> reqs, ret |-> r]

city_always_supported(city) == TRUE

\* the assertion of __init__
city_is_supported(city) == city \in DOMAIN service_names

\* the portal URL built by city_has_data
system_data_url(city) ==
  IF city = bay_area THEN https \o lyft_bikes \o service_names[city]
  ELSE https \o service_names[city] \o com_system_data

city_has_data_any_status(f, city, resp) ==
  IF city \in DOMAIN service_names
  THEN LET reqs == <<Request("probe", system_data_url(city))>>
       IN IF resp.raises
          THEN Effect(f, reqs, Raised("city_has_data", "ConnectionError"))
          ELSE Effect(f, reqs, RetBool("city_has_data", TRUE))
  ELSE Effect(f, <<>>, [RetBool("city_has_data", FALSE) EXCEPT !.errors = 1])

\* city_has_data(), the portal answering resp
city_has_data(f, city, resp) ==
  IF city \in DOMAIN service_names
  THEN LET reqs == <<Request("probe", system_data_url(city))>>
       IN IF resp.raises
          THEN Effect(f, reqs, Raised("city_has_data", "ConnectionError"))
          ELSE IF resp.status = 200
               THEN Effect(f, reqs, RetBool("city_has_data", TRUE))
               ELSE Effect(f, reqs, [RetBool("city_has_data", FALSE) EXCEPT !.errors = 1])
  ELSE Effect(f, <<>>, [RetBool("city_has_data", FALSE) EXCEPT !.errors = 1])

cache_check_path_without_city(city, file_name) == Join(<<>>, file_name)

\* the path data_file_exists tests
cache_check_path(city, file_name) == Join(Join(<<>>, city), file_name)

\* a cache check that never finds an entry
data_file_never_exists(f, city, file_name) == FALSE

\* data_file_exists(file_name) of a fetcher for city (line 144)
data_file_exists(f, city, file_name) == Exists(f, cache_check_path(city, file_name))

\* the paths download_one_file_of_raw_data works on
download_directory(city, file_name) == Join(Join(<<>>, city), file_name)
download_zipfile_path(city, zipfile_name) == Join(Join(<<>>, city), zipfile_name)
download_csv_path(city, file_name) ==
  Join(download_directory(city, file_name), file_name \o dot_csv)

\* the path load_raw_data reads on a cache hit
cached_csv_path(city, file_name) ==
  Join(<<>>, file_name \o <<"/">> \o file_name \o dot_csv)

reraised_exception(g, reqs) ==
  Effect(g, reqs, Raised("download_one_file_of_raw_data", "Exception"))

\* the except clause of download_one_file_of_raw_data: logs, returns None
caught_exception(g, reqs) ==
  Effect(g, reqs, [RetNone("download_one_file_of_raw_data") EXCEPT !.errors = 1])

remove_never(g, keep_zipfile, zipfile_path) == g

\* if not keep_zipfile: os.remove(zipfile_path)
remove_unless_kept(g, keep_zipfile, zipfile_path) ==
  IF keep_zipfile THEN g ELSE Remove(g, zipfile_path)

\* the try block of download_one_file_of_raw_data
download_try(f, city, yr, month, keep_zipfile, url, zipfile_name, outcome) ==
  LET op == "download_one_file_of_raw_data"
      file_name == DropLast4(zipfile_name)
      data_directory == download_directory(city, file_name)
      zipfile_path == download_zipfile_path(city, zipfile_name)
      reqs == <<Request("archive", url)>>
      caught(g) == caught_exception(g, reqs)
      content == ResponseContent(url, yr, month, outcome)
      f1 == IF Exists(f, data_directory) THEN f ELSE Put(f, data_directory, Dir)
      f2 == Put(f1, zipfile_path, content)
      member == file_name \o dot_csv
      extracted_file_path == download_directory(city, file_name)
      f3 == Put(f2, Join(extracted_file_path, member),
                File(IF content.kind = "zip" THEN "csv" ELSE "badcsv", <<>>, content.rows))
      f4 == remove_unless_kept(f3, keep_zipfile, zipfile_path)
      table == read_csv(f4, Join(data_directory, file_name \o dot_csv))
  IN IF outcome = "get_raises" THEN caught(f)
     ELSE IF outcome = "open_raises" THEN caught(f1)
     ELSE IF content.kind = "junk" \/ content.member # member THEN caught(f2)
     ELSE IF table.exc # "" THEN caught(f4)
     ELSE Effect(f4, reqs, [table EXCEPT !.op = op])

\* download_one_file_of_raw_data(month, keep_zipfile)
download_one_file_of_raw_data(f, city, yr, month, keep_zipfile, outcome) ==
  LET op == "download_one_file_of_raw_data"
      url == get_url_for_city_data(city, yr, month)
      zipfile_name == get_zipfile_name(url)
  IN IF url.exc # "" THEN Effect(f, <<>>, Raised(op, url.exc))
     ELSE IF zipfile_name.exc # ""
          THEN Effect(f, <<>>, [Raised(op, zipfile_name.exc) EXCEPT !.errors = url.errors])
          ELSE download_try(f, city, yr, month, keep_zipfile, url.s, zipfile_name.s, outcome)

\* One iteration of the loop of load_raw_data, lines 65-79: yields the
\* filesystem, the requests issued, the locals after it, and the exception
\* that ended the batch ("" when the loop goes on).
Iteration(f, reqs, dftm, d, exc, hit, did) ==
  [fs |-> f, net |-> reqs, data_for_the_month |-> dftm, data |-> d,
   exc |-> exc, hit |-> hit, did |-> did]

\* pd.concat([data, data_for_the_month], axis=0) of one iteration
concat(it) ==
  IF it.exc # "" THEN it
  ELSE IF it.data_for_the_month.tag = "unbound"
       THEN [it EXCEPT !.exc = "UnboundLocalError"]
       ELSE [it EXCEPT !.data = it.data \o it.data_for_the_month.rows]

\* the branch of an iteration that downloads the month (lines 71 and 77)
download_branch(f, city, yr, month, dftm, d, outcome) ==
  LET e == download_one_file_of_raw_data(f, city, yr, month, FALSE, outcome)
  IN IF e.ret.exc # ""
     THEN Iteration(e.fs, e.net, dftm, d, e.ret.exc, FALSE, "download")
     ELSE Iteration(e.fs, e.net, [tag |-> e.ret.tag, rows |-> e.ret.rows], d,
                    "", FALSE, "download")

\* the branch of an iteration that meets a cache entry (lines 68-69, 73-75)
cached_branch(f, city, file_name, jd, dftm, d) ==
  IF jd THEN Iteration(f, <<>>, dftm, d, "", TRUE, "skip")
  ELSE LET table == read_csv(f, cached_csv_path(city, file_name))
       IN IF table.exc # ""
          THEN Iteration(f, <<>>, dftm, d, table.exc, TRUE, "read")
          ELSE Iteration(f, <<>>, DF(table.rows), d, "", TRUE, "read")

\* the body of the for loop of load_raw_data for one month
load_month(f, city, yr, jd, month, dftm, d, outcome) ==
  LET file_name == get_data_file_name(city, yr, month)
  IN IF file_name.exc # ""
     THEN Iteration(f, <<>>, dftm, d, file_name.exc, FALSE, "none")
     ELSE IF data_file_exists(f, city, file_name.s)
          THEN concat(cached_branch(f, city, file_name.s, jd, dftm, d))
          ELSE concat(download_branch(f, city, yr, month, dftm, d, outcome))

\* a default range that stops one month short of the last month
range_of_months_exclusive(yr, months) ==
  LET is_current_year == (yr = NowYear)
      end_month == IF is_current_year THEN NowMonth ELSE 12
  IN IF months.given THEN months.list ELSE [k \in 1..(end_month - 1) |-> k]

\* the default range counted down from the last month instead of up from 1
range_of_months_descending(yr, months) ==
  LET is_current_year == (yr = NowYear)
      end_month == IF is_current_year THEN NowMonth ELSE 12
  IN IF months.given THEN months.list
     ELSE [k \in 1..end_month |-> (end_month + 1) - k]

\* lines 56-58 of load_raw_data
range_of_months(yr, months) ==
  LET is_current_year == (yr = NowYear)
      end_month == IF is_current_year THEN NowMonth ELSE 12
  IN IF months.given THEN months.list ELSE [k \in 1..end_month |-> k]

----------------------------------------------------------------------------
(* The inputs.                                                             *)

AllCityInputs ==
  {bay_area, chicago, new_york, columbus, washington_dc, portland, miami,
   Chicago_mixed}
CityInputs == {bay_area, chicago, portland, miami, Chicago_mixed}
Years == {PortlandLastYear, NowYear}
AllYears == {PortlandLastYear - 1, PortlandLastYear, PortlandLastYear + 1, NowYear}
\* the explicit month lists: empty, single, ascending, descending, repeated,
\* and one with a month that is no month of the year
MonthLists == {<<>>, <<1>>, <<2>>, <<1, 2>>, <<2, 1>>, <<1, 1>>, <<13>>}
\* the months of the calls of single-month methods
DirectMonths == {1, 2}
MonthArgs ==
  {[given |-> FALSE, list |-> <<>>]} \cup {[given |-> TRUE, list |-> l] : l \in MonthLists}
AllMonths == 1..12

\* proper_city_name(city_name) of src.setup.config: whether it may raise
proper_city_name_raises(c) == IF c \in DOMAIN service_names THEN {FALSE} ELSE {FALSE, TRUE}

\* an environment failure is still within the budget
Applicable(outcome) == outcome # "ok" => fails < MaxFails

NoCall == [op |-> "", city |-> <<>>, month |-> 0, keep_zipfile |-> FALSE,
           just_download |-> FALSE, months |-> [given |-> FALSE, list |-> <<>>],
           outcome |-> "", probe |-> [raises |-> FALSE, status |-> 0]]
CallInit(c) == [NoCall EXCEPT !.op = "__init__", !.city = c]
CallMonth(op, m) == [NoCall EXCEPT !.op = op, !.month = m]
CallDownload(m, keep, outcome) ==
  [NoCall EXCEPT !.op = "download_one_file_of_raw_data", !.month = m,
                 !.keep_zipfile = keep, !.outcome = outcome]
CallProbe(resp) == [NoCall EXCEPT !.op = "city_has_data", !.probe = resp]
CallLoad(jd, months, resp) ==
  [NoCall EXCEPT !.op = "load_raw_data", !.just_download = jd, !.months = months,
                 !.probe = resp]

----------------------------------------------------------------------------
(* The state machine.                                                      *)

Init ==
  /\ constructed = "no"
  /\ city_name = <<>>
  /\ year = 0
  /\ fs = EmptyFs
  /\ fs0 = EmptyFs
  /\ net = <<>>
  /\ pc = "idle"
  /\ just_download = FALSE
  /\ months_to_query_for = <<>>
  /\ idx = 0
  /\ data = <<>>
  /\ data_for_the_month = Unbound
  /\ steps = <<>>
  /\ call = NoCall
  /\ ret = NoResult
  /\ calls = 0
  /\ fails = 0

frame == <<just_download, months_to_query_for, idx, data, data_for_the_month, steps>>

\* DataDownloader(city_name=c, year=y), c drawn from Cs and y from Ys
Construct(Cs, Ys) ==
  \E c \in Cs, y \in Ys, praises \in BOOLEAN :
    /\ constructed = "no"
    /\ praises \in proper_city_name_raises(c)
    /\ year' = y
    /\ city_name' = lower(c)
    /\ call' = CallInit(c)
    /\ IF praises
       THEN constructed' = "failed" /\ ret' = Raised("__init__", "KeyError")
       ELSE IF ~city_is_supported(lower(c))
            THEN constructed' = "failed" /\ ret' = Raised("__init__", "AssertionError")
            ELSE constructed' = "ok" /\ ret' = RetNone("__init__")
    /\ UNCHANGED <<fs, fs0, net, pc, frame, calls, fails>>

Idle == constructed = "ok" /\ pc = "idle"

\* processor.get_data_file_name(month=m)
CallGetDataFileName ==
  \E m \in AllMonths :
    /\ Idle
    /\ call' = CallMonth("get_data_file_name", m)
    /\ ret' = get_data_file_name(city_name, year, m)
    /\ net' = <<>>
    /\ fs0' = fs
    /\ UNCHANGED <<constructed, city_name, year, fs, pc, frame, calls, fails>>

\* processor.get_url_for_city_data(month=m)
CallGetUrl ==
  \E m \in AllMonths :
    /\ Idle
    /\ call' = CallMonth("get_url_for_city_data", m)
    /\ ret' = get_url_for_city_data(city_name, year, m)
    /\ net' = <<>>
    /\ fs0' = fs
    /\ UNCHANGED <<constructed, city_name, year, fs, pc, frame, calls, fails>>

\* processor.data_file_exists(file_name=processor.get_data_file_name(m))
CallDataFileExists ==
  \E m \in DirectMonths :
    /\ Idle
    /\ get_data_file_name(city_name, year, m).exc = ""
    /\ call' = CallMonth("data_file_exists", m)
    /\ ret' = RetBool("data_file_exists",
                      data_file_exists(fs, city_name, get_data_file_name(city_name, year, m).s))
    /\ net' = <<>>
    /\ fs0' = fs
    /\ UNCHANGED <<constructed, city_name, year, fs, pc, frame, calls, fails>>

\* processor.city_has_data()
CallCityHasData ==
  \E resp \in ProbeResponses :
    LET e == city_has_data(fs, city_name, resp)
    IN /\ Idle
       /\ call' = CallProbe(resp)
       /\ ret' = e.ret
       /\ net' = e.net
       /\ fs0' = fs
       /\ fs' = e.fs
       /\ UNCHANGED <<constructed, city_name, year, pc, frame, calls, fails>>

\* processor.download_one_file_of_raw_data(month=m, keep_zipfile=keep)
CallDownloadOne ==
  \E m \in DirectMonths, keep \in BOOLEAN, outcome \in Outcomes :
    LET e == download_one_file_of_raw_data(fs, city_name, year, m, keep, outcome)
    IN /\ Idle
       /\ calls < MaxCalls
       /\ Applicable(outcome)
       /\ e.net = <<>> => outcome = "ok"
       /\ calls' = calls + 1
       /\ fails' = IF outcome = "ok" THEN fails ELSE fails + 1
       /\ call' = CallDownload(m, keep, outcome)
       /\ ret' = e.ret
       /\ net' = e.net
       /\ fs0' = fs
       /\ fs' = e.fs
       /\ UNCHANGED <<constructed, city_name, year, pc, frame>>

\* processor.load_raw_data(just_download=jd, months=...): lines 55-63
LoadStart ==
  \E jd \in BOOLEAN, months \in MonthArgs, resp \in ProbeResponses :
    LET f == make_needed_directories(fs)
        e == city_has_data(f, city_name, resp)
    IN /\ Idle
       /\ calls < MaxCalls
       /\ calls' = calls + 1
       /\ call' = CallLoad(jd, months, resp)
       /\ just_download' = jd
       /\ months_to_query_for' = range_of_months(year, months)
       /\ idx' = 1
       /\ data' = <<>>
       /\ data_for_the_month' = Unbound
       /\ steps' = <<>>
       /\ fs0' = fs
       /\ fs' = e.fs
       /\ net' = e.net
       /\ IF e.ret.exc # ""
          THEN pc' = "idle" /\ ret' = Raised("load_raw_data", e.ret.exc)
          ELSE IF e.ret.b
               THEN pc' = "loop" /\ ret' = NoResult
               ELSE pc' = "idle" /\ ret' = [RetNone("load_raw_data") EXCEPT !.errors = e.ret.errors]
       /\ UNCHANGED <<constructed, city_name, year, fails>>

Step(month, it, outcome) ==
  [month |-> month, hit |-> it.hit, did |-> it.did, net |-> it.net,
   exc |-> it.exc, outcome |-> outcome, wrote |-> (it.fs # fs),
   value |-> it.data_for_the_month, before |-> data, after |-> it.data,
   had_dir |-> LET n == get_data_file_name(city_name, year, month)
               IN n.exc = "" /\ Exists(fs, <<city_name, n.s>>)]

\* one iteration of the for loop: lines 64-79
LoadMonth ==
  \E outcome \in Outcomes :
    LET month == months_to_query_for[idx]
        it == load_month(fs, city_name, year, just_download, month,
                         data_for_the_month, data, outcome)
    IN /\ pc = "loop"
       /\ idx <= Len(months_to_query_for)
       /\ Applicable(outcome)
       /\ it.net = <<>> => outcome = "ok"
       /\ fails' = IF outcome = "ok" THEN fails ELSE fails + 1
       /\ fs' = it.fs
       /\ net' = net \o it.net
       /\ data' = it.data
       /\ data_for_the_month' = it.data_for_the_month
       /\ steps' = Append(steps, Step(month, it, outcome))
       /\ idx' = idx + 1
       /\ IF it.exc # ""
          THEN pc' = "idle" /\ ret' = Raised("load_raw_data", it.exc)
          ELSE pc' = "loop" /\ ret' = ret
       /\ UNCHANGED <<constructed, city_name, year, fs0, just_download,
                      months_to_query_for, call, calls>>

\* line 80: return data
LoadReturn ==
  /\ pc = "loop"
  /\ idx > Len(months_to_query_for)
  /\ pc' = "idle"
  /\ ret' = RetVal("load_raw_data", DF(data))
  /\ UNCHANGED <<constructed, city_name, year, fs, fs0, net, frame,
                 call, calls, fails>>

Next ==
  \/ Construct(CityInputs, Years)
  \/ CallDataFileExists
  \/ CallDownloadOne
  \/ LoadStart
  \/ LoadMonth
  \/ LoadReturn

Spec == Init /\ [][Next]_vars

\* The functions that touch no file, called for every city, year and month.
NextPure ==
  \/ Construct(AllCityInputs, AllYears)
  \/ CallGetDataFileName
  \/ CallGetUrl
  \/ CallCityHasData

SpecPure == Init /\ [][NextPure]_vars

----------------------------------------------------------------------------
(* The properties.                                                         *)

\* the batch call whose iterations steps records is the call in progress or
\* the last call made
InBatch == call.op = "load_raw_data"

\* the batch call is over
BatchOver == InBatch /\ pc = "idle"

\* the cache entry of month m, as the layout <root>/<city>/<file-name> names it
EntryDir(m) == <<city_name, get_data_file_name(city_name, year, m).s>>
EntryCsv(m) ==
  <<city_name, get_data_file_name(city_name, year, m).s,
    get_data_file_name(city_name, year, m).s \o dot_csv>>
EntryZip(m) ==
  <<city_name, get_data_file_name(city_name, year, m).s \o dot_zip>>

ArchiveRequests(reqs) == {k \in 1..Len(reqs) : reqs[k].kind = "archive"}

\* C1: in download-only mode, an iteration that meets an existing cache entry
\* issues no request, leaves the filesystem as it was and raises nothing, so
\* the batch goes on (also when it is the first iteration).
C1_CachedMonthIsNoOp ==
  InBatch /\ just_download =>
    \A k \in 1..Len(steps) :
      steps[k].hit =>
        /\ steps[k].net = <<>>
        /\ ~steps[k].wrote
        /\ steps[k].exc = ""

RECURSIVE SumRows(_)
SumRows(list) ==
  IF list = <<>> THEN 0 ELSE NRows(Head(list)) + SumRows(Tail(list))

\* every month of the explicit list had a cache entry when the call began
AllCached(list) == \A k \in 1..Len(list) : Exists(fs0, EntryDir(list[k]))

\* C2: a load-mode batch over an explicit list of months that all have cache
\* entries returns a table with the sum of the months' row counts and issues
\* no network request, neither a probe nor an archive download.
C2_CacheHitBatchUsesNoNetwork ==
  (/\ BatchOver
   /\ ~just_download
   /\ call.months.given
   /\ call.months.list # <<>>
   /\ ~call.probe.raises /\ call.probe.status = 200
   /\ AllCached(call.months.list))
  => /\ ret.exc = ""
     /\ ret.tag = "df"
     /\ Len(ret.rows) = SumRows(call.months.list)
     /\ net = <<>>

\* C3: the directory the cache check tests, the directory and CSV the download
\* writes and the CSV a load-mode cache hit reads are the same locations, so
\* an iteration that meets the cache entry of a downloaded month reads its CSV.
C3_CacheLocationsAgree ==
  InBatch /\ ~just_download =>
    \A k \in 1..Len(steps) :
      LET m == steps[k].month
          n == get_data_file_name(city_name, year, m).s
      IN steps[k].hit =>
           /\ cache_check_path(city_name, n) = EntryDir(m)
           /\ download_directory(city_name, n) = EntryDir(m)
           /\ download_csv_path(city_name, n) = EntryCsv(m)
           /\ cached_csv_path(city_name, n) = EntryCsv(m)
           /\ (Exists(fs, EntryCsv(m)) /\ fs[EntryCsv(m)].kind = "csv"
                 => steps[k].exc = "" /\ steps[k].value = DF(fs[EntryCsv(m)].rows))

\* an iteration downloaded and the download failed
FailedDownload(s) == s.did = "download" /\ s.outcome # "ok"

\* C4: a download that fails inside an iteration yields None, adds no rows and
\* raises nothing; the loop goes on to the next month, a download that
\* succeeds appends its month's rows, and the batch returns the rows gathered.
C4_FailedDownloadDoesNotAbort ==
  InBatch =>
    /\ \A k \in 1..Len(steps) :
         steps[k].did = "download" =>
           IF FailedDownload(steps[k])
           THEN /\ steps[k].exc = ""
                /\ steps[k].value = None
                /\ steps[k].after = steps[k].before
                /\ (k = Len(steps) => pc = "loop" \/ k = Len(months_to_query_for))
           ELSE steps[k].exc = "" =>
                  steps[k].after = steps[k].before \o SourceRows(year, steps[k].month)
    /\ (pc = "idle" /\ ret.exc = "" /\ ret.tag = "df" =>
          ret.rows = data /\ Len(steps) = Len(months_to_query_for))

C4_Witness ==
  /\ BatchOver /\ ret.exc = "" /\ ret.tag = "df"
  /\ \E k, j \in 1..Len(steps) :
       /\ k < j
       /\ FailedDownload(steps[k])
       /\ steps[j].did = "download" /\ steps[j].outcome = "ok"
       /\ ret.rows = SourceRows(year, steps[j].month)

\* C5: the probe returns true exactly on status 200, and false on any other
\* status and on a transport failure of the GET; it never raises.
C5_ProbeNeverRaises ==
  call.op = "city_has_data" =>
    /\ ret.exc = ""
    /\ ret.tag = "bool"
    /\ ret.b <=> (~call.probe.raises /\ call.probe.status = 200)

\* C6: when the probe answers a status other than 200, load_raw_data returns
\* None without entering the loop: no archive request, no change on disk,
\* whatever just_download is.
C6_NoDataNoDownload ==
  (InBatch /\ ~call.probe.raises /\ call.probe.status # 200) =>
    /\ pc = "idle"
    /\ ret.op = "load_raw_data" /\ ret.exc = "" /\ ret.tag = "none"
    /\ ArchiveRequests(net) = {}
    /\ steps = <<>>
    /\ fs = fs0

C6_Witness ==
  /\ InBatch /\ call.probe.status = 404 /\ call.just_download
  /\ fs0 # EmptyFs
  /\ ret.tag = "none" /\ ret.op = "load_raw_data"

\* the keys of the City Registry
RegistryCities == {bay_area, chicago, new_york, columbus, washington_dc, portland}

\* C7: construction with a city that is not in the registry fails, and
\* nothing was requested or written before it failed (nor after).
C7_UnsupportedCityFails ==
  (call.op = "__init__" /\ lower(call.city) \notin RegistryCities) =>
    /\ constructed = "failed"
    /\ ret.exc # ""
    /\ net = <<>>
    /\ fs = EmptyFs

C7_Witness ==
  /\ constructed = "failed"
  /\ call.city = miami
  /\ ret.exc = "AssertionError"

\* the cities with a file-name template and a URL head
DownloadableCities == RegistryCities \ {bay_area}

\* C8: get_url_for_city_data logs an error and returns None for portland
\* after 2020; otherwise, for a downloadable city, it returns
\* "https://" + head + file name + ".zip", and for portland, 2020, month 5
\* the URL of the example.
C8_DownloadUrl ==
  (call.op = "get_url_for_city_data" /\ city_name \in DownloadableCities) =>
    IF city_name = portland /\ year > 2020
    THEN ret.exc = "" /\ ret.tag = "none" /\ ret.errors > 0
    ELSE /\ ret.exc = "" /\ ret.tag = "str" /\ ret.errors = 0
         /\ ret.s = https \o city_name_and_url_head[city_name]
                      \o get_data_file_name(city_name, year, call.month).s \o dot_zip
         /\ (city_name = portland /\ year = 2020 /\ call.month = 5 => ret.s = example_url)

C8_Witness ==
  /\ call.op = "get_url_for_city_data"
  /\ city_name = portland /\ year = 2020 /\ call.month = 5
  /\ ret.s = example_url

\* the download got as far as extracting the CSV
Extracted(outcome) == outcome \in {"ok", "read_raises"}

\* C9: after a single-month download that extracted its CSV, the archive
\* exists exactly when keep_zipfile was set; after a download made by an
\* iteration of load_raw_data it does not exist.
C9_ArchiveRemovedUnlessKept ==
  /\ (call.op = "download_one_file_of_raw_data" /\ ret.exc = "" /\ Extracted(call.outcome))
       => (Exists(fs, EntryZip(call.month)) <=> call.keep_zipfile)
  /\ InBatch =>
       \A k \in 1..Len(steps) :
         (steps[k].did = "download" /\ steps[k].exc = "" /\ Extracted(steps[k].outcome))
           => ~Exists(fs, EntryZip(steps[k].month))

C9_Witness ==
  /\ call.op = "download_one_file_of_raw_data"
  /\ call.keep_zipfile /\ ret.tag = "df"
  /\ Exists(fs, EntryZip(call.month))

\* C10: data_file_exists answers whether the directory <root>/<city>/<name>
\* exists, without a request or a write; right after a download that
\* extracted its CSV it answers true.
C10_CacheCheck ==
  /\ call.op = "data_file_exists" =>
       /\ ret.tag = "bool"
       /\ ret.b <=> Exists(fs, EntryDir(call.month))
       /\ net = <<>>
       /\ fs = fs0
  /\ (call.op = "download_one_file_of_raw_data" /\ ret.exc = "" /\ Extracted(call.outcome))
       => data_file_exists(fs, city_name, get_data_file_name(city_name, year, call.month).s)
  /\ InBatch =>
       \A k \in 1..Len(steps) :
         (steps[k].did = "download" /\ steps[k].exc = "" /\ Extracted(steps[k].outcome))
           => data_file_exists(fs, city_name,
                               get_data_file_name(city_name, year, steps[k].month).s)

C10_Witness ==
  /\ call.op = "data_file_exists" /\ ret.b
  /\ Exists(fs, EntryCsv(call.month))
  /\ \E m \in DirectMonths : ~Exists(fs, EntryDir(m))

-----------------------------------------------------------------------------
\* the months the caller asked for: the explicit list, or 1, 2, ... for the
\* default range
RequestedMonths ==
  IF call.months.given THEN call.months.list
  ELSE [k \in 1..Len(months_to_query_for) |-> k]

\* no month of the list is followed by an earlier one
Ascending(list) == \A j, k \in 1..Len(list) : j < k => list[j] <= list[k]

\* the month a row of a table was recorded for
RowMonth(row) == row[1] % 100

\* C11 as stated: in every batch, whatever the month list, the months are
\* processed in ascending month order: no month is processed after a later one.
C11_AscendingMonthOrder ==
  InBatch => \A j, k \in 1..Len(steps) : j < k => steps[j].month <= steps[k].month

\* C11 amended: a batch processes the requested months in the order of the
\* month sequence, one at a time, each iteration starting from the table the
\* previous one left; for the default range and for an explicit list given
\* in ascending order that order is ascending month order, and the rows of
\* the table are in that order too.
C11_ListOrder ==
  InBatch =>
    /\ Len(steps) <= Len(RequestedMonths)
    /\ \A k \in 1..Len(steps) : steps[k].month = RequestedMonths[k]
    /\ pc = "loop" => idx = Len(steps) + 1
    /\ \A k \in 1..(Len(steps) - 1) : steps[k + 1].before = steps[k].after
    /\ (~call.months.given \/ Ascending(call.months.list)) =>
         /\ \A j, k \in 1..Len(steps) : j < k => steps[j].month <= steps[k].month
         /\ (~call.months.given =>
              \A j, k \in 1..Len(steps) : j < k => steps[j].month < steps[k].month)
         /\ \A j, k \in 1..Len(data) : j < k => RowMonth(data[j]) <= RowMonth(data[k])

\* a batch over the default range has processed two months and holds rows of
\* both
C11_Witness ==
  /\ InBatch
  /\ ~call.months.given
  /\ Len(steps) >= 2
  /\ \E j, k \in 1..Len(data) : RowMonth(data[j]) < RowMonth(data[k])

-----------------------------------------------------------------------------
\* C12: in download-only mode a month that is not cached is downloaded and
\* extracted and its content is then discarded, so the iteration that
\* downloaded it adds no row to the table and the table the batch returns
\* holds no row of a month downloaded by that batch.
C12_DownloadOnlyDiscards ==
  InBatch /\ just_download =>
    /\ \A k \in 1..Len(steps) :
         steps[k].did = "download" => steps[k].after = steps[k].before
    /\ \A k \in 1..Len(steps), j \in 1..Len(data) :
         steps[k].did = "download" => RowMonth(data[j]) # steps[k].month

-----------------------------------------------------------------------------
\* a fetcher of the city and years for which no download URL exists
PortlandUnsupported ==
  constructed = "ok" /\ city_name = portland /\ year > PortlandLastYear

\* C13: for portland and a year after 2020, a month that is not cached makes
\* the single-month download, and the batch iteration that runs it, end in
\* a raised error; no archive request is issued, and no directory and no
\* file is created.
C13_PortlandFailsOutright ==
  PortlandUnsupported =>
    /\ call.op = "download_one_file_of_raw_data" =>
         /\ ret.exc # ""
         /\ net = <<>>
         /\ fs = fs0
    /\ InBatch =>
         /\ ArchiveRequests(net) = {}
         /\ fs = fs0
         /\ \A k \in 1..Len(steps) :
              ~steps[k].had_dir =>
                /\ steps[k].exc # ""
                /\ steps[k].net = <<>>
                /\ ~steps[k].wrote
                /\ BatchOver /\ ret.exc = steps[k].exc

\* a batch of such a fetcher has reached a month that is not cached and has
\* ended there with the error of the name derivation
C13_Witness ==
  /\ PortlandUnsupported
  /\ BatchOver /\ Len(steps) = 1 /\ ~steps[1].had_dir
  /\ steps[1].exc = "TypeError" /\ ret.exc = "TypeError"

-----------------------------------------------------------------------------
\* C14: every month a batch works on (each iteration derives the month's
\* file name and checks its cache, and may download it) is one of the
\* months 1..12, for the default range and for every explicit list.
C14_MonthsOfTheYear ==
  InBatch => \A k \in 1..Len(steps) : steps[k].month \in AllMonths

-----------------------------------------------------------------------------
\* the months 1..n in order
UpTo(n) == [k \in 1..n |-> k]

\* C15: a batch called without a month list requests exactly the months
\* 1..current-month when the fetcher's year is the current year and exactly
\* 1..12 for every other year; called with a list it requests exactly the
\* listed months.  Requested means: the loop runs over exactly these months,
\* and a batch that returns its table has processed every one of them.
C15_RequestedMonths ==
  LET expected == IF call.months.given THEN call.months.list
                  ELSE IF year = NowYear THEN UpTo(NowMonth) ELSE UpTo(12)
  IN InBatch =>
       /\ months_to_query_for = expected
       /\ Len(steps) <= Len(expected)
       /\ \A k \in 1..Len(steps) : steps[k].month = expected[k]
       /\ BatchOver /\ ret.tag = "df" => Len(steps) = Len(expected)

\* a batch over the default range of the current year has returned its table
C15_WitnessCurrentYear ==
  /\ BatchOver /\ ret.tag = "df"
  /\ ~call.months.given /\ year = NowYear
  /\ Len(steps) = NowMonth

-----------------------------------------------------------------------------
\* C16: a city the constructor accepted has a file-name template and a URL
\* prefix, so a file-name derivation or URL derivation called on the fetcher
\* never fails for want of the city.
C16_AcceptedCityIsConfigured ==
  constructed = "ok" =>
    (call.op \in {"get_data_file_name", "get_url_for_city_data"} =>
       ret.exc # "KeyError")

-----------------------------------------------------------------------------
\* the months the model's calls can name
NamedMonths == AllMonths \cup {13}

\* C17: in every reachable state, a month whose cache check answers true has
\* its CSV file at <root>/<city>/<file-name>/<file-name>.csv; in particular
\* a single-month download that failed leaves the cache check of its month
\* false.
C17_CachedMeansCsvExists ==
  constructed = "ok" =>
    \A m \in NamedMonths :
      LET file_name == get_data_file_name(city_name, year, m)
      IN (file_name.exc = "" /\ data_file_exists(fs, city_name, file_name.s)) =>
           Exists(fs, EntryCsv(m))

-----------------------------------------------------------------------------
\* the rows an iteration added to the table
Added(s) == SubSeq(s.after, Len(s.before) + 1, Len(s.after))

\* C18: every iteration of a batch adds to the table only rows of its own
\* month, and those rows at most once: what it adds is nothing or the rows of
\* the month's CSV file; it never adds the table of a month processed before.
C18_OnlyOwnRows ==
  InBatch =>
    \A k \in 1..Len(steps) :
      /\ Len(steps[k].after) >= Len(steps[k].before)
      /\ Added(steps[k]) \in {<<>>, SourceRows(year, steps[k].month)}

-----------------------------------------------------------------------------
\* C19: within one batch an archive request is issued for a month only in
\* an iteration that met no cache entry for it, every iteration issues at
\* most one, no archive request is issued outside the iterations, and a month
\* whose extraction succeeded earlier in the batch is not requested again
\* when the list names it again.
C19_DownloadOnlyOnMiss ==
  InBatch =>
    /\ \A k \in 1..Len(steps) :
         /\ Cardinality(ArchiveRequests(steps[k].net)) <= 1
         /\ ArchiveRequests(steps[k].net) # {} => ~steps[k].had_dir
    /\ Cardinality(ArchiveRequests(net)) =
         Cardinality({k \in 1..Len(steps) : ArchiveRequests(steps[k].net) # {}})
    /\ \A j, k \in 1..Len(steps) :
         (/\ j < k
          /\ steps[j].month = steps[k].month
          /\ steps[j].net # <<>>
          /\ Extracted(steps[j].outcome)) => steps[k].net = <<>>

\* a batch over a list that names a month twice has downloaded and extracted
\* it at its first occurrence and met the cache entry at the second
C19_Witness ==
  /\ InBatch
  /\ Len(steps) = 2
  /\ steps[1].month = steps[2].month
  /\ ArchiveRequests(steps[1].net) # {} /\ Extracted(steps[1].outcome)
  /\ steps[2].had_dir /\ steps[2].net = <<>>

====
